---------------------------- MODULE Spec2Model ----------------------------
(***************************************************************************)
(* Provider orchestration and resilience core of ImageForMeDearAi.         *)
(*                                                                         *)
(*   Spec         ProviderManager.generateImage / describeImage / tagImage *)
(*                (src/src/providers/providerManager.ts), one request at a *)
(*                time, every await a step, adapters behaving as the       *)
(*                ImageProvider interface allows.                          *)
(*   AdapterSpec  one adapter call: client check, validateRequest and      *)
(*                BaseImageProvider.executeWithRetry                       *)
(*                (src/unnamed/part_003, huggingFaceProvider.ts).          *)
(*   CacheSpec    the result cache (cache/imageCache.ts), called directly. *)
(*   ToolSpec     handleGenerateImage / handleGenerateLogo                 *)
(*                (src/unnamed/part_001, src/src/tools/generateLogo.ts)    *)
(*                running ProviderManager.generateImage through the cache. *)
(*   ErrorSpec    ImageGenerationError and ErrorHandler                    *)
(*                (src/src/providers/providerManager.ts, lines 456-883).   *)
(*   ReloadSpec   the registry between the constructor, initializeProviders *)
(*                and reloadProviders, read by entering calls.             *)
(*   CapabilitySpec  ProviderManager.getCapabilities.                      *)
(*   SanitizeSpec the prompt through validateRequest, sanitizePrompt and   *)
(*                applyStyleToPrompt.                                      *)
(***************************************************************************)
EXTENDS Integers, Sequences, FiniteSets, TLC

VARIABLES
    providers,        \* ProviderManager.providers: registered names, in Map insertion order
    client,           \* per adapter: this.client !== null (enabled and apiKey configured)
    health,           \* per adapter: what its liveness probe meets right now
    pc,               \* position of the running ProviderManager call
    op,               \* "generate" | "describe" | "tag"
    request,          \* the ImageGenerationRequest of the call
    preferred,        \* preferredProvider argument ("" = not given)
    provider,         \* local `provider` ("" = null)
    fallbackProvider, \* local `fallbackProvider` ("" = null)
    available,        \* availableProviders being built by getAvailableProviders
    idx,              \* position of getAvailableProviders' for-loop (1-based)
    probe,            \* latest isAvailable() outcome per adapter within this call
    primaryError,     \* `error` caught from the primary adapter ("" = none)
    calls,            \* adapter operations invoked by this call, in order
    result,           \* what the caller receives
    \* --- one adapter call (AdapterSpec) ---
    apc,              \* position of the running adapter method
    aself,            \* the adapter (`this.name`), or "wrapper" for a bare executeWithRetry
    aop,              \* the adapter method called
    areq,             \* its request argument
    aclient,          \* this.client !== null
    opErrors,         \* the errors `operation()` can reject with
    attempt,          \* executeWithRetry's loop variable
    lastError,        \* executeWithRetry's `lastError` (NoError = null)
    opCalls,          \* number of `operation()` invocations (backend calls)
    attempts,         \* how each attempt's race settled, in order
    delays,           \* the backoff delays slept, in order (ms)
    final,            \* what the adapter method's caller receives
    \* --- ProviderManager.getProviderStats ---
    stats,            \* allProviders / availableProviders / providerInfo of the running call
    \* --- the result cache ---
    cacheEnabled,     \* getCache() returns a cache (config.cache.enabled)
    ttl,              \* config.cache.ttl, in clock ticks
    maxSize,          \* config.cache.maxSize
    now,              \* the clock
    cache,            \* the entries, in creation order
    got,              \* the latest cache.get: its request's fingerprint, time and answer
    lastSet,          \* per stored fingerprint: its latest cache.set (result, time, read since)
    setOrder,         \* the fingerprints ever set, by their latest cache.set
    \* --- one tool call (ToolSpec) ---
    tpc,              \* position of the running tool handler
    tool,             \* "image" (handleGenerateImage) | "logo" (handleGenerateLogo)
    tprovider,        \* validatedArgs.provider ("" = not given)
    tfp,              \* fingerprint of the handler's request (<<>> when the arguments are invalid)
    texp,             \* expiresAt of the entry live for tfp when the handler was entered (0 = none)
    tlog,             \* what the handler did so far, in order
    response,         \* the McpToolResponse
    prev,             \* fingerprint and success of the tool call before this one
    \* --- error classification (ErrorSpec) ---
    eraw,             \* the value handed to ErrorHandler / the constructor
    eprovider,        \* the `provider` argument
    eerr,             \* the ImageGenerationError produced
    \* --- the registry's life cycle (ReloadSpec) ---
    enabled,          \* the adapters config.providers enables
    loads,            \* initializeProviders calls awaiting configManager.loadConfig()
    seen,             \* what the latest call's synchronous read of this.providers met
    \* --- the adapter outside executeWithRetry's locals ---
    model,            \* the ChatGPT adapter's config.model
    late,             \* outcomes of timed-out operations that settled afterwards, in order
    prompt,           \* the words of a request's prompt (SanitizeSpec)
    sent              \* the prompt handed to the backend

mvars == <<providers, client, health, pc, op, request, preferred, provider,
           fallbackProvider, available, idx, probe, primaryError, calls, result>>

avars == <<apc, aself, aop, areq, aclient, opErrors, attempt, lastError, opCalls,
           attempts, delays, final>>

svars == <<stats>>

cvars == <<cacheEnabled, ttl, maxSize, now, cache>>

gvars == <<got, lastSet, setOrder>>

tvars == <<tpc, tool, tprovider, tfp, texp, tlog, response, prev>>

evars == <<eraw, eprovider, eerr>>

rvars == <<enabled, loads, seen>>

pvars == <<model, late, prompt, sent>>

\* What a step of ProviderManager's three operations leaves alone.
notManager == <<avars, svars, cvars, gvars, tvars, evars, rvars, pvars>>

\* What a step of an adapter call leaves alone.
notAdapter == <<mvars, svars, cvars, gvars, tvars, evars, rvars, pvars>>

\* What a direct call of the cache leaves alone.
notCache == <<mvars, avars, svars, tvars, evars, rvars, pvars>>

\* What a step of ErrorHandler leaves alone.
notErrors == <<mvars, avars, svars, cvars, gvars, tvars, rvars, pvars>>

vars == <<mvars, avars, svars, cvars, gvars, tvars, evars, rvars, pvars>>

-----------------------------------------------------------------------------
(* Adapters, capabilities, requests                                        *)

Providers == {"chatgpt", "huggingface"}

\* Map insertion order of initializeProviders: chatgpt first, then huggingface.
RegistryOrder == <<"chatgpt", "huggingface">>

Operations == {"generate", "describe", "tag"}

\* Names a caller may pass as preferredProvider; "" is `undefined`, "dalle" is unregistered.
PreferredNames == {"", "chatgpt", "huggingface", "dalle"}

MaxPromptLength == 4000
MinCount == 1
MaxCount == 10
MinDimension == 64
MaxDimension == 2048
MaxAspect == 4

\* Option values are sequences: <<>> is `undefined`, <<v>> is v.
Some(v) == <<v>>
None == <<>>

Dim(w, h) == [width |-> w, height |-> h]

Req(len, trimLen, count, dims, transparent) ==
    [prompt |-> [len |-> len, trimLen |-> trimLen], count |-> count,
     dimensions |-> dims, transparent |-> transparent]

\* BaseImageProvider.validateRequest: "ok", or the code of the error it throws.
validateRequest(req) ==
    IF req.prompt.len = 0 \/ req.prompt.trimLen = 0 THEN "INVALID_REQUEST"
    ELSE IF req.prompt.len > MaxPromptLength THEN "INVALID_REQUEST"
    ELSE IF req.count # None /\ req.count[1] # 0
            /\ (req.count[1] < MinCount \/ req.count[1] > MaxCount) THEN "INVALID_REQUEST"
    ELSE IF req.dimensions # None THEN
        LET width == req.dimensions[1].width
            height == req.dimensions[1].height
        IN  IF width < MinDimension \/ width > MaxDimension
               \/ height < MinDimension \/ height > MaxDimension THEN "INVALID_REQUEST"
            \* aspectRatio = width / height; < 0.25 or > 4
            ELSE IF MaxAspect * width < height \/ width > MaxAspect * height
                 THEN "INVALID_REQUEST"
            ELSE "ok"
    ELSE "ok"

\* Mutant of supportsFeature: ChatGPTProvider answers false for 'logo'.
supportsFeatureNoLogo(p, feature) ==
    IF p = "chatgpt"
    THEN feature \in {"generation", "description", "transparency"}
    ELSE feature \in {"generation", "description", "tagging", "transparency", "logo"}

\* ChatGPTProvider.supportsFeature / HuggingFaceProvider.supportsFeature
supportsFeature(p, feature) ==
    IF p = "chatgpt"
    THEN feature \in {"generation", "description", "transparency", "logo"}
    ELSE feature \in {"generation", "description", "tagging", "transparency", "logo"}

\* `provider.describeImage` / `provider.tagImage` is a function: BaseImageProvider
\* defines both optional methods with a body, so every subclass instance has them.
hasMethod(p, o) == o \in Operations

-----------------------------------------------------------------------------
(* Error taxonomy                                                          *)

\* enum ErrorCodes, plus 'API_ERROR', which the adapters throw without declaring it.
ErrorCodes ==
    {"CONFIGURATION_ERROR", "PROVIDER_NOT_CONFIGURED", "AUTHENTICATION_FAILED",
     "PERMISSION_DENIED", "RATE_LIMIT_EXCEEDED", "QUOTA_EXCEEDED", "INVALID_REQUEST",
     "CONTENT_POLICY_VIOLATION", "GENERATION_FAILED", "DESCRIPTION_FAILED",
     "TAGGING_FAILED", "DOWNLOAD_FAILED", "TIMEOUT", "SERVICE_UNAVAILABLE",
     "NETWORK_ERROR", "INVALID_RESPONSE", "FEATURE_NOT_AVAILABLE",
     "IMAGE_DESCRIPTION_NOT_SUPPORTED", "IMAGE_TAGGING_NOT_SUPPORTED",
     "OPERATION_FAILED", "VALIDATION_FAILED", "API_ERROR"}

\* ImageGenerationError.isRetryableByCode
isRetryableByCode(code) ==
    code \in {"TIMEOUT", "SERVICE_UNAVAILABLE", "NETWORK_ERROR", "RATE_LIMIT_EXCEEDED"}

\* An error object as executeWithRetry sees it: `code`, and `response.status`
\* (0 when the error carries no HTTP response).
Err(code, status) == [code |-> code, status |-> status]

\* BaseImageProvider.createError: a ProviderError with a code and no response.
createError(code) == Err(code, 0)

NoError == Err("", 0)

\* Mutant of isClientError: only the HTTP status is looked at.
isClientErrorStatusOnly(error) == error.status >= 400 /\ error.status < 500

\* BaseImageProvider.isClientError
isClientError(error) ==
    \/ error.status >= 400 /\ error.status < 500
    \/ error.code \in {"INVALID_REQUEST", "AUTHENTICATION_FAILED", "PERMISSION_DENIED",
                       "QUOTA_EXCEEDED", "CONTENT_POLICY_VIOLATION"}

\* Codes the closure handed to executeWithRetry can reject with, per adapter and
\* operation: every failure inside the closure's try block is re-thrown by its
\* catch block through createError.
ClosureErrors(p, o) ==
    IF p = "chatgpt" /\ o = "generate" THEN
        {"CONTENT_POLICY_VIOLATION", "INVALID_REQUEST", "RATE_LIMIT_EXCEEDED",
         "QUOTA_EXCEEDED", "API_ERROR", "GENERATION_FAILED"}
    ELSE IF p = "huggingface" /\ o = "generate" THEN
        {"AUTHENTICATION_FAILED", "PERMISSION_DENIED", "RATE_LIMIT_EXCEEDED",
         "SERVICE_UNAVAILABLE", "API_ERROR", "GENERATION_FAILED"}
    ELSE IF p = "chatgpt" /\ o = "describe" THEN
        {"FEATURE_NOT_AVAILABLE", "DESCRIPTION_FAILED"}
    ELSE IF p = "huggingface" /\ o = "describe" THEN {"DESCRIPTION_FAILED"}
    ELSE IF p = "huggingface" /\ o = "tag" THEN {"TAGGING_FAILED"}
    ELSE {}

\* Whether the adapter's method runs executeWithRetry at all: ChatGPTProvider does
\* not override tagImage, so the base method throws at once.
usesRetry(p, o) == ~(p = "chatgpt" /\ o = "tag")

\* Codes executeWithRetry can fail with, given the codes its operation rejects
\* with (the timeout race adds TIMEOUT): client errors pass through unchanged,
\* everything else ends as OPERATION_FAILED once the attempts are used up.
WrapperThrows(codes) ==
    LET thrown == codes \cup {"TIMEOUT"}
    IN  {c \in thrown : isClientError(createError(c))}
        \cup (IF \E c \in thrown : ~isClientError(createError(c))
              THEN {"OPERATION_FAILED"} ELSE {})

\* Codes an adapter method can throw to ProviderManager for a request.
AdapterThrows(p, o, req, hasClient) ==
    IF ~usesRetry(p, o) THEN {"IMAGE_TAGGING_NOT_SUPPORTED"}
    ELSE IF ~hasClient THEN {"PROVIDER_NOT_CONFIGURED"}
    ELSE IF o = "generate" /\ validateRequest(req) # "ok" THEN {validateRequest(req)}
    ELSE WrapperThrows(ClosureErrors(p, o))

\* Whether an adapter method can resolve with a (success: true) result.
AdapterCanSucceed(p, o, req, hasClient) ==
    /\ usesRetry(p, o)
    /\ hasClient
    /\ o = "generate" => validateRequest(req) = "ok"

-----------------------------------------------------------------------------
(* ProviderManager                                                         *)

\* Requests handed to ProviderManager.generateImage: "a red bicycle" 512x512,
\* the same as a transparent logo request, and one with width = 4000.
ManagerRequests ==
    {Req(13, 13, Some(1), Some(Dim(512, 512)), FALSE),
     Req(13, 13, Some(1), Some(Dim(512, 512)), TRUE),
     Req(13, 13, Some(1), Some(Dim(4000, 512)), FALSE)}

\* describeImage and tagImage take an image URL; the request slot is unused.
NoRequest == Req(0, 0, None, None, FALSE)

NoResult ==
    [kind |-> "none", success |-> FALSE, provider |-> "", error |-> "",
     code |-> None, retryable |-> None]

\* The result object a method returns. `error` is the message string
\* (`error.message`), written here as the name of the error it came from; the
\* result types have no field for the error's code or its retryable flag.
Returned(success, name, error) ==
    [kind |-> "returned", success |-> success, provider |-> name, error |-> error,
     code |-> None, retryable |-> None]

\* The promise of the ProviderManager method rejects with `error`.
Threw(error) ==
    [kind |-> "threw", success |-> FALSE, provider |-> "", error |-> error,
     code |-> None, retryable |-> None]

NoProbes == [p \in Providers |-> "none"]

\* Registries initializeProviders can build: each adapter is set when enabled.
Registries == {<<>>, <<"chatgpt">>, <<"huggingface">>, RegistryOrder}

Registered(name) == \E k \in 1..Len(providers) : providers[k] = name

\* provider.isAvailable(): the shipped adapters resolve false without a client
\* and otherwise resolve what their probe finds; the ImageProvider interface
\* also lets the promise reject ("throws").
isAvailable(p) ==
    IF ~client[p] THEN "false"
    ELSE IF health[p] = "up" THEN "true"
    ELSE IF health[p] = "down" THEN "false"
    ELSE "throws"

\* Mutant of probeAdmits: the probe's promise is tested without `await`, so every
\* probed adapter is pushed.
probeAdmitsUnawaited(outcome) == TRUE

\* getAvailableProviders, line 72-77: the condition under which the probed
\* adapter is pushed; a rejected probe is caught and the adapter skipped.
probeAdmits(outcome) == outcome = "true"

\* The capability a call selects its primary adapter by.
primaryFeature(o, req) ==
    IF o = "generate" THEN (IF req.transparent THEN "logo" ELSE "generation")
    ELSE IF o = "describe" THEN "description"
    ELSE "tagging"

\* The capability passed to getFallbackProvider.
fallbackFeature(o) ==
    IF o = "generate" THEN "generation"
    ELSE IF o = "describe" THEN "description"
    ELSE "tagging"

\* Mutant of priorityOrder: the tagging order is used for every capability.
priorityOrderOfTagging(feature) == <<"huggingface", "chatgpt">>

\* priorities[feature] of getBestProvider
priorityOrder(feature) ==
    IF feature = "tagging" THEN <<"huggingface", "chatgpt">>
    ELSE <<"chatgpt", "huggingface">>

\* getBestProvider after its getAvailableProviders call: "" is null.
getBestProvider(feature, avail) ==
    LET supporting == SelectSeq(avail, LAMBDA q : supportsFeature(q, feature))
        order == priorityOrder(feature)
        hits == SelectSeq(order, LAMBDA n : \E k \in 1..Len(supporting) : supporting[k] = n)
    IN  IF Len(supporting) = 0 THEN ""
        ELSE IF Len(hits) > 0 THEN hits[1]
        ELSE supporting[1]

\* Mutant of fallbackMatches: the failed adapter is not excluded.
fallbackMatchesAnyName(q, failedProviderName, feature) == supportsFeature(q, feature)

\* The predicate of availableProviders.find in getFallbackProvider.
fallbackMatches(q, failedProviderName, feature) ==
    q # failedProviderName /\ supportsFeature(q, feature)

\* getFallbackProvider after its getAvailableProviders call: "" is null.
getFallbackProvider(failedProviderName, feature, avail) ==
    LET found == SelectSeq(avail, LAMBDA q : fallbackMatches(q, failedProviderName, feature))
    IN  IF Len(found) > 0 THEN found[1] ELSE ""

\* The message of the "No available providers" result.
NoProviderError == "NO_AVAILABLE_PROVIDERS"

CallRecord(name, role, outcome) ==
    [name |-> name, role |-> role, probed |-> probe[name], outcome |-> outcome]

MInit ==
    /\ providers \in Registries
    /\ client \in [Providers -> BOOLEAN]
    /\ health \in [Providers -> {"up", "down", "throws"}]
    /\ pc = "idle"
    /\ op = "generate"
    /\ request = NoRequest
    /\ preferred = ""
    /\ provider = ""
    /\ fallbackProvider = ""
    /\ available = <<>>
    /\ idx = 1
    /\ probe = NoProbes
    /\ primaryError = ""
    /\ calls = <<>>
    /\ result = NoResult

\* The backend of an adapter changes what its probe meets.
HealthChange ==
    /\ \E p \in Providers, h \in {"up", "down", "throws"} :
          /\ h # health[p]
          /\ health' = [health EXCEPT ![p] = h]
    /\ UNCHANGED notManager
    /\ UNCHANGED <<providers, client, pc, op, request, preferred, provider,
                   fallbackProvider, available, idx, probe, primaryError, calls, result>>

\* A caller enters generateImage / describeImage / tagImage; the method runs to
\* its first await: the preferred adapter's probe when the name is registered,
\* else getBestProvider's first probe.
Call ==
    /\ pc = "idle"
    /\ \E o \in Operations, pref \in PreferredNames,
          req \in ManagerRequests \cup {NoRequest} :
          /\ (o = "generate") = (req \in ManagerRequests)
          /\ op' = o
          /\ request' = req
          /\ preferred' = pref
          /\ pc' = IF pref # "" /\ Registered(pref) THEN "preferred" ELSE "best"
    /\ provider' = ""
    /\ fallbackProvider' = ""
    /\ available' = <<>>
    /\ idx' = 1
    /\ probe' = NoProbes
    /\ primaryError' = ""
    /\ calls' = <<>>
    /\ result' = NoResult
    /\ UNCHANGED notManager
    /\ UNCHANGED <<providers, client, health>>

\* `provider && !(await provider.isAvailable())` on the preferred adapter.
\* The await is outside every try block: a rejected probe rejects the method.
ProbePreferred ==
    /\ pc = "preferred"
    /\ LET outcome == isAvailable(preferred)
       IN  /\ probe' = [probe EXCEPT ![preferred] = outcome]
           /\ IF outcome = "throws"
              THEN /\ result' = Threw("PROBE_REJECTED")
                   /\ pc' = "done"
                   /\ provider' = preferred
              ELSE /\ result' = result
                   /\ provider' = IF outcome = "true" THEN preferred ELSE ""
                   /\ pc' = IF outcome = "true" THEN "selected" ELSE "best"
    /\ UNCHANGED notManager
    /\ UNCHANGED <<providers, client, health, op, request, preferred,
                   fallbackProvider, available, idx, primaryError, calls>>

\* One iteration of getAvailableProviders' loop, for getBestProvider ("best")
\* or getFallbackProvider ("fallback").
ProbeNext ==
    /\ pc \in {"best", "fallback"}
    /\ idx <= Len(providers)
    /\ LET p == providers[idx]
           outcome == isAvailable(p)
       IN  /\ probe' = [probe EXCEPT ![p] = outcome]
           /\ available' = IF probeAdmits(outcome) THEN Append(available, p)
                           ELSE available
    /\ idx' = idx + 1
    /\ UNCHANGED notManager
    /\ UNCHANGED <<providers, client, health, pc, op, request, preferred, provider,
                   fallbackProvider, primaryError, calls, result>>

\* getBestProvider returns once every registered adapter is probed.
SelectBest ==
    /\ pc = "best"
    /\ idx > Len(providers)
    /\ provider' = getBestProvider(primaryFeature(op, request), available)
    /\ pc' = "selected"
    /\ UNCHANGED notManager
    /\ UNCHANGED <<providers, client, health, op, request, preferred,
                   fallbackProvider, available, idx, probe, primaryError, calls, result>>

\* `if (!provider)` (generateImage) / `if (!provider || !provider.describeImage)`:
\* return the "No available providers" result, or call the adapter.
Dispatch ==
    /\ pc = "selected"
    /\ IF provider = "" \/ ~hasMethod(provider, op)
       THEN /\ result' = Returned(FALSE, "none", NoProviderError)
            /\ pc' = "done"
       ELSE /\ result' = result
            /\ pc' = "invoke"
    /\ UNCHANGED notManager
    /\ UNCHANGED <<providers, client, health, op, request, preferred, provider,
                   fallbackProvider, available, idx, probe, primaryError, calls>>

\* Mutant of Invoke: an adapter whose call failed is deleted from the registry.
InvokeUnregistersFailed ==
    /\ pc = "invoke"
    /\ \/ /\ AdapterCanSucceed(provider, op, request, client[provider])
          /\ calls' = Append(calls, CallRecord(provider, "primary", "success"))
          /\ result' = Returned(TRUE, provider, "")
          /\ pc' = "done"
          /\ UNCHANGED <<primaryError, available, idx, providers>>
       \/ \E e \in AdapterThrows(provider, op, request, client[provider]) :
             /\ calls' = Append(calls, CallRecord(provider, "primary", e))
             /\ primaryError' = e
             /\ pc' = "fallback"
             /\ available' = <<>>
             /\ idx' = 1
             /\ result' = result
             /\ providers' = SelectSeq(providers, LAMBDA q : q # provider)
    /\ UNCHANGED notManager
    /\ UNCHANGED <<client, health, op, request, preferred, provider,
                   fallbackProvider, probe>>

\* `return await provider.generateImage(request)` and its catch: the adapter
\* resolves and the method returns its result, or it rejects and the method goes
\* on to getFallbackProvider.
Invoke ==
    /\ pc = "invoke"
    /\ \/ /\ AdapterCanSucceed(provider, op, request, client[provider])
          /\ calls' = Append(calls, CallRecord(provider, "primary", "success"))
          /\ result' = Returned(TRUE, provider, "")
          /\ pc' = "done"
          /\ UNCHANGED <<primaryError, available, idx>>
       \/ \E e \in AdapterThrows(provider, op, request, client[provider]) :
             /\ calls' = Append(calls, CallRecord(provider, "primary", e))
             /\ primaryError' = e
             /\ pc' = "fallback"
             /\ available' = <<>>
             /\ idx' = 1
             /\ result' = result
    /\ UNCHANGED notManager
    /\ UNCHANGED <<providers, client, health, op, request, preferred, provider,
                   fallbackProvider, probe>>

\* getFallbackProvider returns; without a fallback (or without its method) the
\* method returns the primary adapter's failure.
SelectFallback ==
    /\ pc = "fallback"
    /\ idx > Len(providers)
    /\ LET fb == getFallbackProvider(provider, fallbackFeature(op), available)
       IN  /\ fallbackProvider' = fb
           /\ IF fb # "" /\ hasMethod(fb, op)
              THEN /\ pc' = "invokeFallback"
                   /\ result' = result
              ELSE /\ pc' = "done"
                   /\ result' = Returned(FALSE, provider, primaryError)
    /\ UNCHANGED notManager
    /\ UNCHANGED <<providers, client, health, op, request, preferred, provider,
                   available, idx, probe, primaryError, calls>>

\* Mutant of InvokeFallback: the fallback's result is awaited but not returned.
InvokeFallbackNoReturn ==
    /\ pc = "invokeFallback"
    /\ \/ /\ AdapterCanSucceed(fallbackProvider, op, request, client[fallbackProvider])
          /\ calls' = Append(calls, CallRecord(fallbackProvider, "fallback", "success"))
       \/ \E e \in AdapterThrows(fallbackProvider, op, request, client[fallbackProvider]) :
             calls' = Append(calls, CallRecord(fallbackProvider, "fallback", e))
    /\ result' = Returned(FALSE, provider, primaryError)
    /\ pc' = "done"
    /\ UNCHANGED notManager
    /\ UNCHANGED <<providers, client, health, op, request, preferred, provider,
                   fallbackProvider, available, idx, probe, primaryError>>

\* `return await fallbackProvider.generateImage(request)` and its catch.
InvokeFallback ==
    /\ pc = "invokeFallback"
    /\ \/ /\ AdapterCanSucceed(fallbackProvider, op, request, client[fallbackProvider])
          /\ calls' = Append(calls, CallRecord(fallbackProvider, "fallback", "success"))
          /\ result' = Returned(TRUE, fallbackProvider, "")
       \/ \E e \in AdapterThrows(fallbackProvider, op, request, client[fallbackProvider]) :
             /\ calls' = Append(calls, CallRecord(fallbackProvider, "fallback", e))
             /\ result' = Returned(FALSE, provider, primaryError)
    /\ pc' = "done"
    /\ UNCHANGED notManager
    /\ UNCHANGED <<providers, client, health, op, request, preferred, provider,
                   fallbackProvider, available, idx, probe, primaryError>>

\* The caller has the outcome; the manager is ready for the next call.
Return ==
    /\ pc = "done"
    /\ pc' = "idle"
    /\ UNCHANGED notManager
    /\ UNCHANGED <<providers, client, health, op, request, preferred, provider,
                   fallbackProvider, available, idx, probe, primaryError, calls, result>>


-----------------------------------------------------------------------------
(* One adapter call: client check, validateRequest, executeWithRetry       *)

retryAttempts == 3
retryDelay == 1000

\* Requests an adapter's generateImage is called with: the "a red bicycle"
\* request and its neighbours, one field at a time, at and beyond each bound of
\* validateRequest.
AdapterRequests ==
    {Req(l[1], l[2], Some(1), Some(Dim(512, 512)), FALSE) :
        l \in {<<0, 0>>, <<3, 0>>, <<13, 13>>, <<4000, 4000>>, <<4001, 4001>>}}
    \cup {Req(13, 13, c, Some(Dim(512, 512)), FALSE) :
        c \in {None, Some(0 - 1), Some(0), Some(1), Some(10), Some(11)}}
    \cup {Req(13, 13, Some(1), d, FALSE) :
        d \in {None, Some(Dim(4000, 512)), Some(Dim(512, 4000)), Some(Dim(63, 64)),
               Some(Dim(64, 64)), Some(Dim(2048, 2048)), Some(Dim(2049, 2048)),
               Some(Dim(2048, 512)), Some(Dim(512, 2048)), Some(Dim(2048, 64)),
               Some(Dim(64, 512))}}

\* HTTP statuses of errors that carry a `response` and no taxonomy code.
RawStatuses == {404, 429, 500, 503}

\* What an arbitrary operation handed to executeWithRetry can reject with: a
\* coded error without a response, or a raw HTTP error without a code.
GenericErrors ==
    {createError(c) : c \in ErrorCodes} \cup {Err("", st) : st \in RawStatuses}

NoFinal == [kind |-> "none", err |-> NoError, lastError |-> None]

\* The method resolves (with a success: true result).
Resolved == [kind |-> "value", err |-> NoError, lastError |-> None]

\* The method rejects with `err`; `last` is details.lastError when set.
Rejected(err, last) == [kind |-> "error", err |-> err, lastError |-> last]

Settled(kind, err) == [kind |-> kind, err |-> err]

\* Mutant of loopContinues: the loop condition is off by one.
loopContinuesOffByOne(a) == a < retryAttempts

\* `attempt <= this.retryAttempts`, the for-loop's condition.
loopContinues(a) == a <= retryAttempts

\* `attempt < this.retryAttempts`, the guard of the backoff sleep.
attemptsRemain(a) == a < retryAttempts

\* Mutant of backoffDelay: the exponent is the attempt number.
backoffDelayFromAttempt(a) == retryDelay * 2 ^ a

\* retryDelay * Math.pow(2, attempt - 1)
backoffDelay(a) == retryDelay * 2 ^ (a - 1)

AQuiet ==
    /\ apc = "idle"
    /\ aself = "wrapper"
    /\ aop = "generate"
    /\ areq = NoRequest
    /\ aclient = FALSE
    /\ opErrors = {}
    /\ attempt = 1
    /\ lastError = NoError
    /\ opCalls = 0
    /\ attempts = <<>>
    /\ delays = <<>>
    /\ final = NoFinal

MQuiet ==
    /\ providers = <<>>
    /\ client = [p \in Providers |-> FALSE]
    /\ health = [p \in Providers |-> "down"]
    /\ pc = "idle"
    /\ op = "generate"
    /\ request = NoRequest
    /\ preferred = ""
    /\ provider = ""
    /\ fallbackProvider = ""
    /\ available = <<>>
    /\ idx = 1
    /\ probe = NoProbes
    /\ primaryError = ""
    /\ calls = <<>>
    /\ result = NoResult

\* ProviderManager (or a test) calls adapter.generateImage / describeImage /
\* tagImage.
CallAdapter ==
    /\ apc = "idle"
    /\ \E p \in Providers, o \in Operations, hasClient \in BOOLEAN,
          req \in AdapterRequests \cup {NoRequest} :
          /\ (o = "generate") = (req \in AdapterRequests)
          /\ aself' = p
          /\ aop' = o
          /\ areq' = req
          /\ aclient' = hasClient
          /\ opErrors' = {createError(c) : c \in ClosureErrors(p, o)}
    /\ apc' = "entered"
    /\ UNCHANGED <<attempt, lastError, opCalls, attempts, delays, final>>
    /\ UNCHANGED notAdapter

\* executeWithRetry is entered with an arbitrary operation.
CallWrapper ==
    /\ apc = "idle"
    /\ aself' = "wrapper"
    /\ opErrors' = GenericErrors
    /\ attempt' = 1
    /\ lastError' = NoError
    /\ apc' = "attempt"
    /\ UNCHANGED <<aop, areq, aclient, opCalls, attempts, delays, final>>
    /\ UNCHANGED notAdapter

\* Mutant of AdapterEntry: generateImage enters executeWithRetry without calling
\* validateRequest.
AdapterEntryNoValidation ==
    /\ apc = "entered"
    /\ IF ~usesRetry(aself, aop)
       THEN /\ final' = Rejected(createError("IMAGE_TAGGING_NOT_SUPPORTED"), None)
            /\ apc' = "done"
       ELSE IF ~aclient
       THEN /\ final' = Rejected(createError("PROVIDER_NOT_CONFIGURED"), None)
            /\ apc' = "done"
       ELSE /\ final' = final
            /\ apc' = "attempt"
    /\ attempt' = 1
    /\ lastError' = NoError
    /\ UNCHANGED <<aself, aop, areq, aclient, opErrors, opCalls, attempts, delays>>
    /\ UNCHANGED notAdapter

\* The synchronous head of the adapter method: the base tagImage throws at
\* once; otherwise `if (!this.client) throw`, then (generateImage only)
\* validateRequest, then executeWithRetry is entered with attempt = 1.
AdapterEntry ==
    /\ apc = "entered"
    /\ IF ~usesRetry(aself, aop)
       THEN /\ final' = Rejected(createError("IMAGE_TAGGING_NOT_SUPPORTED"), None)
            /\ apc' = "done"
       ELSE IF ~aclient
       THEN /\ final' = Rejected(createError("PROVIDER_NOT_CONFIGURED"), None)
            /\ apc' = "done"
       ELSE IF aop = "generate" /\ validateRequest(areq) # "ok"
       THEN /\ final' = Rejected(createError(validateRequest(areq)), None)
            /\ apc' = "done"
       ELSE /\ final' = final
            /\ apc' = "attempt"
    /\ attempt' = 1
    /\ lastError' = NoError
    /\ UNCHANGED <<aself, aop, areq, aclient, opErrors, opCalls, attempts, delays>>
    /\ UNCHANGED notAdapter

\* Loop head: Promise.race([operation(), createTimeoutPromise()]) starts the
\* backend call and arms the timer.
StartAttempt ==
    /\ apc = "attempt"
    /\ loopContinues(attempt)
    /\ opCalls' = opCalls + 1
    /\ apc' = "racing"
    /\ UNCHANGED <<aself, aop, areq, aclient, opErrors, attempt, lastError, attempts,
                   delays, final>>
    /\ UNCHANGED notAdapter

\* The operation resolves before the timer: executeWithRetry returns its value.
OperationResolves ==
    /\ apc = "racing"
    /\ attempts' = Append(attempts, Settled("resolved", NoError))
    /\ final' = Resolved
    /\ apc' = "done"
    /\ UNCHANGED <<aself, aop, areq, aclient, opErrors, attempt, lastError, opCalls, delays>>
    /\ UNCHANGED notAdapter

\* The catch block of executeWithRetry for the error `e` of the lost race, up
\* to the next await: rethrow a client error; sleep when attempts remain; else
\* leave the loop and throw OPERATION_FAILED with details.lastError.
Caught(kind, e) ==
    /\ attempts' = Append(attempts, Settled(kind, e))
    /\ lastError' = e
    /\ IF isClientError(e)
       THEN /\ final' = Rejected(e, None)
            /\ apc' = "done"
            /\ UNCHANGED <<attempt, delays>>
       ELSE IF attemptsRemain(attempt)
       THEN /\ delays' = Append(delays, backoffDelay(attempt))
            /\ apc' = "backoff"
            /\ UNCHANGED <<attempt, final>>
       ELSE IF loopContinues(attempt + 1)
       THEN /\ attempt' = attempt + 1
            /\ apc' = "attempt"
            /\ UNCHANGED <<delays, final>>
       ELSE /\ attempt' = attempt + 1
            /\ final' = Rejected(createError("OPERATION_FAILED"), Some(e))
            /\ apc' = "done"
            /\ UNCHANGED delays
    /\ UNCHANGED <<aself, aop, areq, aclient, opErrors, opCalls>>
    /\ UNCHANGED notAdapter

\* The operation rejects before the timer.
OperationRejects ==
    /\ apc = "racing"
    /\ \E e \in opErrors : Caught("rejected", e)

\* Mutant of TimeoutFires: the timeout promise never rejects.
TimeoutNeverFires == FALSE /\ UNCHANGED vars

\* createTimeoutPromise: the timer fires first (the operation is slow or never
\* settles) and the race rejects with a TIMEOUT error.
TimeoutFires ==
    /\ apc = "racing"
    /\ Caught("timeout", createError("TIMEOUT"))

\* `await this.delay(delay)` is over; attempt++ and the loop condition is tested.
DelayElapses ==
    /\ apc = "backoff"
    /\ attempt' = attempt + 1
    /\ IF loopContinues(attempt + 1)
       THEN /\ apc' = "attempt"
            /\ final' = final
       ELSE /\ apc' = "done"
            /\ final' = Rejected(createError("OPERATION_FAILED"), Some(lastError))
    /\ UNCHANGED <<aself, aop, areq, aclient, opErrors, lastError, opCalls, attempts, delays>>
    /\ UNCHANGED notAdapter

\* Mutant of LateSettles: the wrapper still listens to an operation whose race
\* is over, and a late success becomes the result.
LateSettlesIntoResult ==
    /\ Len(late) < Len(SelectSeq(attempts, LAMBDA a : a.kind = "timeout"))
    /\ \E outcome \in {"resolved", "rejected"} :
          /\ late' = Append(late, outcome)
          /\ final' = IF outcome = "resolved" THEN Resolved ELSE final
          /\ apc' = IF outcome = "resolved" THEN "done" ELSE apc
    /\ UNCHANGED <<aself, aop, areq, aclient, opErrors, attempt, lastError, opCalls,
                   attempts, delays>>
    /\ UNCHANGED <<model, prompt, sent>>
    /\ UNCHANGED <<mvars, svars, cvars, gvars, tvars, evars, rvars>>

\* An operation whose race the timer won is not cancelled: it settles later, and
\* Promise.race, already settled, drops what it settles with.
LateSettles ==
    /\ Len(late) < Len(SelectSeq(attempts, LAMBDA a : a.kind = "timeout"))
    /\ \E outcome \in {"resolved", "rejected"} : late' = Append(late, outcome)
    /\ UNCHANGED avars
    /\ UNCHANGED <<model, prompt, sent>>
    /\ UNCHANGED <<mvars, svars, cvars, gvars, tvars, evars, rvars>>

-----------------------------------------------------------------------------
(* Result cache (cache/imageCache.ts)                                      *)

\* The clock stops at MaxTime; ttl and maxSize are configured up to MaxTTL and
\* MaxCacheSize.
MaxTime == 3
MaxTTL == 2
MaxCacheSize == 2

\* The fingerprint of a request: its semantically relevant fields.
fingerprint(req) == <<req.prompt, req.count, req.dimensions, req.transparent>>

Fingerprints == {fingerprint(r) : r \in ManagerRequests}

\* The results a successful generateImage hands to cache.set.
CacheResults == {Returned(TRUE, p, "") : p \in Providers}

CacheEntry(fp, res, t) ==
    [fingerprint |-> fp, result |-> res, createdAt |-> t, expiresAt |-> t + ttl]

NoGet == [kind |-> "none", fingerprint |-> <<>>, value |-> None]

NoSets == [f \in Fingerprints |-> None]

\* An entry is live until the clock reaches its expiresAt.
isLive(e, t) == t < e.expiresAt

\* cache.get(request): Some(result) of the live entry, None when absent.
cacheGet(c, fp, t) ==
    LET found == SelectSeq(c, LAMBDA e : e.fingerprint = fp /\ isLive(e, t))
    IN  IF Len(found) > 0 THEN Some(found[1].result) ELSE None

\* Mutant of evictOldest: the newest entries are dropped.
evictNewest(c, max) == IF Len(c) > max THEN SubSeq(c, 1, max) ELSE c

\* Evict the oldest-created entries until within the bound.
evictOldest(c, max) ==
    IF Len(c) > max THEN SubSeq(c, Len(c) - max + 1, Len(c)) ELSE c

\* cache.set(request, result): insert or overwrite the fingerprint's entry,
\* stamped now, then evict.
cacheSet(c, fp, res, t) ==
    evictOldest(Append(SelectSeq(c, LAMBDA e : e.fingerprint # fp),
                       CacheEntry(fp, res, t)), maxSize)

\* lastSet after a cache.get of fp answered `value`: a hit is noted.
noteRead(fp, value) ==
    IF value # None /\ lastSet[fp] # None
    THEN [lastSet EXCEPT ![fp] = Some([lastSet[fp][1] EXCEPT !.read = TRUE])]
    ELSE lastSet

CQuiet ==
    /\ cacheEnabled = FALSE
    /\ ttl = 1
    /\ maxSize = 1
    /\ now = 0
    /\ cache = <<>>

GQuiet ==
    /\ got = NoGet
    /\ lastSet = NoSets
    /\ setOrder = <<>>

\* A cache built by initializeCache(config.cache).
CacheInit ==
    /\ cacheEnabled = TRUE
    /\ ttl \in 1..MaxTTL
    /\ maxSize \in 1..MaxCacheSize
    /\ now = 0
    /\ cache = <<>>

\* cache.set(request, result)
CacheSet ==
    /\ \E fp \in Fingerprints, res \in CacheResults :
          /\ cache' = cacheSet(cache, fp, res, now)
          /\ lastSet' = [f \in Fingerprints |->
                           IF f = fp
                           THEN Some([result |-> res, at |-> now, read |-> FALSE])
                           ELSE IF \E k \in 1..Len(cache') : cache'[k].fingerprint = f
                           THEN lastSet[f]
                           ELSE None]
          /\ setOrder' = Append(SelectSeq(setOrder, LAMBDA f : f # fp), fp)
    /\ got' = NoGet
    /\ UNCHANGED <<cacheEnabled, ttl, maxSize, now>>
    /\ UNCHANGED notCache

\* Mutant of CacheGet: a hit renews the entry's expiresAt.
CacheGetRenews ==
    /\ \E fp \in Fingerprints :
          LET value == cacheGet(cache, fp, now)
          IN  /\ got' = [kind |-> "get", fingerprint |-> fp, value |-> value]
              /\ lastSet' = noteRead(fp, value)
              /\ cache' = [k \in 1..Len(cache) |->
                             IF cache[k].fingerprint = fp /\ value # None
                             THEN [cache[k] EXCEPT !.expiresAt = now + ttl]
                             ELSE cache[k]]
    /\ UNCHANGED <<cacheEnabled, ttl, maxSize, now, setOrder>>
    /\ UNCHANGED notCache

\* cache.get(request): the entries are left as they are.
CacheGet ==
    /\ \E fp \in Fingerprints :
          LET value == cacheGet(cache, fp, now)
          IN  /\ got' = [kind |-> "get", fingerprint |-> fp, value |-> value]
              /\ lastSet' = noteRead(fp, value)
    /\ UNCHANGED <<cacheEnabled, ttl, maxSize, now, cache, setOrder>>
    /\ UNCHANGED notCache

\* Time passes.
Tick ==
    /\ now < MaxTime
    /\ now' = now + 1
    /\ got' = NoGet
    /\ UNCHANGED <<cacheEnabled, ttl, maxSize, cache, lastSet, setOrder>>
    /\ UNCHANGED notCache

CacheNext ==
    \/ CacheSet
    \/ CacheGet
    \/ Tick

-----------------------------------------------------------------------------
(* Tool handlers: handleGenerateImage, handleGenerateLogo                  *)

Tools == {"image", "logo"}

\* validatedArgs.provider of generate_image; generate_logo takes none.
ToolProviders == {"", "chatgpt", "huggingface"}

\* The ImageGenerationRequest the handler builds: generate_image sets no
\* `transparent`, generate_logo sets transparent: true.
toolRequest(t) ==
    IF t = "logo" THEN Req(13, 13, Some(1), Some(Dim(512, 512)), TRUE)
    ELSE Req(13, 13, Some(1), Some(Dim(512, 512)), FALSE)

NoResponse == [kind |-> "none", success |-> FALSE, cached |-> FALSE, error |-> ""]

Response(success, cached, error) ==
    [kind |-> "returned", success |-> success, cached |-> cached, error |-> error]

NoPrev == [fingerprint |-> <<>>, success |-> FALSE]

\* getAvailableProviders: the registered adapters whose probe answers true.
availableNow == SelectSeq(providers, LAMBDA p : probeAdmits(isAvailable(p)))

\* hasAvailableProviders (generate_image) / getCapabilities().canGenerateLogos
\* (generate_logo)
providersCheck(t) ==
    IF t = "logo"
    THEN \E k \in 1..Len(availableNow) : supportsFeature(availableNow[k], "logo")
    ELSE Len(availableNow) > 0

\* expiresAt of the entry live for fp, 0 when there is none.
liveUntil(fp) ==
    LET found == SelectSeq(cache, LAMBDA e : e.fingerprint = fp /\ isLive(e, now))
    IN  IF Len(found) > 0 THEN found[1].expiresAt ELSE 0

\* providerManager.generateImage(req, pref) run from entry to return against
\* the adapters as they are now: the result the handler receives and the number
\* of adapters whose generateImage was invoked.
generateImageOutcomes(req, pref) ==
    LET feature == primaryFeature("generate", req)
        prefProbe == IF pref # "" /\ Registered(pref) THEN isAvailable(pref) ELSE "none"
        primary == IF prefProbe = "true" THEN pref
                   ELSE getBestProvider(feature, availableNow)
        fb == getFallbackProvider(primary, fallbackFeature("generate"), availableNow)
        fbOutcomes(e) ==
            IF fb = ""
            THEN {[result |-> Returned(FALSE, primary, e), invoked |-> 1]}
            ELSE {[result |-> Returned(TRUE, fb, ""), invoked |-> 2] :
                     x \in {y \in {1} : AdapterCanSucceed(fb, "generate", req, client[fb])}}
                 \cup {[result |-> Returned(FALSE, primary, e), invoked |-> 2] :
                     x \in AdapterThrows(fb, "generate", req, client[fb])}
    IN  IF prefProbe = "throws"
        THEN {[result |-> Threw("PROBE_REJECTED"), invoked |-> 0]}
        ELSE IF primary = ""
        THEN {[result |-> Returned(FALSE, "none", NoProviderError), invoked |-> 0]}
        ELSE {[result |-> Returned(TRUE, primary, ""), invoked |-> 1] :
                 x \in {y \in {1} : AdapterCanSucceed(primary, "generate", req, client[primary])}}
             \cup UNION {fbOutcomes(e) :
                           e \in AdapterThrows(primary, "generate", req, client[primary])}

TQuiet ==
    /\ tpc = "idle"
    /\ tool = "image"
    /\ tprovider = ""
    /\ tfp = <<>>
    /\ texp = 0
    /\ tlog = <<>>
    /\ response = NoResponse
    /\ prev = NoPrev

\* A tool call arrives; Schema.parse(args) throws on invalid arguments and the
\* catch block answers; otherwise the handler asks ProviderManager whether an
\* adapter is available.
ToolCall ==
    /\ tpc = "idle"
    /\ pc = "idle"
    /\ \E t \in Tools, pref \in ToolProviders, valid \in BOOLEAN :
          /\ t = "logo" => pref = ""
          /\ tool' = t
          /\ tprovider' = pref
          /\ IF valid
             THEN /\ tfp' = fingerprint(toolRequest(t))
                  /\ texp' = liveUntil(fingerprint(toolRequest(t)))
                  /\ response' = NoResponse
                  /\ tpc' = "providers"
             ELSE /\ tfp' = <<>>
                  /\ texp' = 0
                  /\ response' = Response(FALSE, FALSE, "Invalid arguments")
                  /\ tpc' = "done"
    /\ tlog' = <<>>
    /\ UNCHANGED prev
    /\ UNCHANGED <<mvars, avars, svars, cvars, gvars, evars, rvars, pvars>>

\* `if (!(await providerManager.hasAvailableProviders())) return ...` and
\* `if (!capabilities.canGenerateLogos) return ...`
CheckProviders ==
    /\ tpc = "providers"
    /\ tlog' = Append(tlog, "probe")
    /\ IF providersCheck(tool)
       THEN /\ tpc' = "lookup"
            /\ response' = response
       ELSE /\ tpc' = "done"
            /\ response' = Response(FALSE, FALSE, "No providers available")
    /\ UNCHANGED <<tool, tprovider, tfp, texp, prev>>
    /\ UNCHANGED <<mvars, avars, svars, cvars, gvars, evars, rvars, pvars>>

\* `result = await cache.get(request); if (result) return {...result, cached: true}`
CacheHit ==
    /\ tpc = "lookup"
    /\ cacheEnabled
    /\ cacheGet(cache, tfp, now) # None
    /\ tlog' = Append(tlog, "cache.get")
    /\ response' = Response(TRUE, TRUE, "")
    /\ tpc' = "done"
    /\ UNCHANGED <<tool, tprovider, tfp, texp, prev>>
    /\ UNCHANGED <<mvars, avars, svars, cvars, gvars, evars, rvars, pvars>>

\* generate_image without a cached result goes on to
\* `providerManager.generateImage(request, validatedArgs.provider)`
CacheMissImage ==
    /\ tpc = "lookup"
    /\ tool = "image"
    /\ ~(cacheEnabled /\ cacheGet(cache, tfp, now) # None)
    /\ tlog' = (IF cacheEnabled THEN Append(tlog, "cache.get") ELSE tlog)
    /\ tpc' = "generating"
    /\ UNCHANGED <<tool, tprovider, tfp, texp, response, prev>>
    /\ UNCHANGED <<mvars, avars, svars, cvars, gvars, evars, rvars, pvars>>

\* generate_logo without a cached result:
\* `const logoProvider = await providerManager.getBestProvider('logo')`
CacheMissLogo ==
    /\ tpc = "lookup"
    /\ tool = "logo"
    /\ ~(cacheEnabled /\ cacheGet(cache, tfp, now) # None)
    /\ tlog' = (IF cacheEnabled THEN Append(tlog, "cache.get") ELSE tlog)
    /\ tpc' = "bestLogo"
    /\ UNCHANGED <<tool, tprovider, tfp, texp, response, prev>>
    /\ UNCHANGED <<mvars, avars, svars, cvars, gvars, evars, rvars, pvars>>

\* getBestProvider('logo') answers; `logoProvider?.name` is the preferred name
\* of the generateImage call.
SelectLogoProvider ==
    /\ tpc = "bestLogo"
    /\ tlog' = Append(tlog, "probe")
    /\ tprovider' = getBestProvider("logo", availableNow)
    /\ tpc' = "generating"
    /\ UNCHANGED <<tool, tfp, texp, response, prev>>
    /\ UNCHANGED <<mvars, avars, svars, cvars, gvars, evars, rvars, pvars>>

\* Mutant of Generate: the result is written to the cache whatever its success.
GenerateStoresEveryResult ==
    /\ tpc = "generating"
    /\ \E o \in generateImageOutcomes(toolRequest(tool), tprovider) :
          LET invoked == [k \in 1..o.invoked |-> "adapter.generateImage"]
          IN  IF o.result.kind = "returned" /\ o.result.success
              THEN /\ response' = Response(TRUE, FALSE, "")
                   /\ cache' = IF cacheEnabled THEN cacheSet(cache, tfp, o.result, now)
                               ELSE cache
                   /\ tlog' = tlog \o <<"probe">> \o invoked
                                \o (IF cacheEnabled THEN <<"cache.set">> ELSE <<>>)
                                \o (IF tool = "image" THEN <<"probe">> ELSE <<>>)
              ELSE /\ response' = Response(FALSE, FALSE, o.result.error)
                   /\ tlog' = tlog \o <<"probe">> \o invoked
                   /\ cache' = IF cacheEnabled THEN cacheSet(cache, tfp, o.result, now)
                               ELSE cache
    /\ tpc' = "done"
    /\ UNCHANGED <<tool, tprovider, tfp, texp, prev>>
    /\ UNCHANGED <<cacheEnabled, ttl, maxSize, now>>
    /\ UNCHANGED <<mvars, avars, svars, gvars, evars, rvars, pvars>>

\* `result = await providerManager.generateImage(request, ...)` and what follows:
\* a rejection lands in the catch block, a failed result is answered as a
\* failure, a success is written to the cache and answered (generate_image adds
\* `await providerManager.getCapabilities()` to its answer).
Generate ==
    /\ tpc = "generating"
    /\ \E o \in generateImageOutcomes(toolRequest(tool), tprovider) :
          LET invoked == [k \in 1..o.invoked |-> "adapter.generateImage"]
          IN  IF o.result.kind = "returned" /\ o.result.success
              THEN /\ response' = Response(TRUE, FALSE, "")
                   /\ cache' = IF cacheEnabled THEN cacheSet(cache, tfp, o.result, now)
                               ELSE cache
                   /\ tlog' = tlog \o <<"probe">> \o invoked
                                \o (IF cacheEnabled THEN <<"cache.set">> ELSE <<>>)
                                \o (IF tool = "image" THEN <<"probe">> ELSE <<>>)
              ELSE /\ response' = Response(FALSE, FALSE, o.result.error)
                   /\ tlog' = tlog \o <<"probe">> \o invoked
                   /\ cache' = cache
    /\ tpc' = "done"
    /\ UNCHANGED <<tool, tprovider, tfp, texp, prev>>
    /\ UNCHANGED <<cacheEnabled, ttl, maxSize, now>>
    /\ UNCHANGED <<mvars, avars, svars, gvars, evars, rvars, pvars>>

\* The MCP client has the response.
ToolReturn ==
    /\ tpc = "done"
    /\ tpc' = "idle"
    /\ prev' = [fingerprint |-> tfp, success |-> response.success]
    /\ tool' = "image"
    /\ tprovider' = ""
    /\ tfp' = <<>>
    /\ texp' = 0
    /\ tlog' = <<>>
    /\ response' = NoResponse
    /\ UNCHANGED <<mvars, avars, svars, cvars, gvars, evars, rvars, pvars>>

\* generateImage invocations on adapters made for the running tool call.
adapterCalls == Len(SelectSeq(tlog, LAMBDA ev : ev = "adapter.generateImage"))

\* Both adapters are enabled and configured; the cache, when enabled, is built
\* by initializeCache(config.cache).
ToolInit ==
    /\ providers = RegistryOrder
    /\ client = [p \in Providers |-> TRUE]
    /\ health \in [Providers -> {"up", "down"}]
    /\ pc = "idle"
    /\ op = "generate"
    /\ request = NoRequest
    /\ preferred = ""
    /\ provider = ""
    /\ fallbackProvider = ""
    /\ available = <<>>
    /\ idx = 1
    /\ probe = NoProbes
    /\ primaryError = ""
    /\ calls = <<>>
    /\ result = NoResult
    /\ cacheEnabled \in BOOLEAN
    /\ ttl = MaxTTL
    /\ maxSize \in {1, MaxCacheSize}
    /\ now = 0
    /\ cache = <<>>

ToolNext ==
    \/ ToolCall
    \/ CheckProviders
    \/ CacheHit
    \/ CacheMissImage
    \/ CacheMissLogo
    \/ SelectLogoProvider
    \/ Generate
    \/ ToolReturn
    \/ HealthChange
    \/ Tick

-----------------------------------------------------------------------------
(* ProviderManager.getProviderStats                                        *)

NoStats ==
    [kind |-> "none", all |-> <<>>, available |-> <<>>, providerInfo |-> <<>>,
     totalProviders |-> 0, availableProviders |-> 0]

SQuiet == stats = NoStats

\* The positions of a generateImage / describeImage / tagImage call.
CallPositions ==
    {"preferred", "best", "selected", "invoke", "fallback", "invokeFallback", "done"}

\* The latest generateImage / describeImage / tagImage call has returned (or none
\* was made yet).
callOver == pc \notin (CallPositions \ {"done"})

\* getProviderStats is entered: `allProviders = this.getProviders()`, then the
\* method awaits getAvailableProviders.
CallStats ==
    /\ pc = "idle"
    /\ pc' = "statsAvailable"
    /\ stats' = [NoStats EXCEPT !.kind = "running", !.all = providers]
    /\ UNCHANGED <<providers, client, health, op, request, preferred, provider,
                   fallbackProvider, available, idx, probe, primaryError, calls, result>>
    /\ UNCHANGED <<avars, cvars, gvars, tvars, evars, rvars, pvars>>

\* `availableProviders = await this.getAvailableProviders()`
StatsAvailable ==
    /\ pc = "statsAvailable"
    /\ pc' = "statsInfo"
    /\ stats' = [stats EXCEPT !.available = availableNow]
    /\ UNCHANGED <<providers, client, health, op, request, preferred, provider,
                   fallbackProvider, available, idx, probe, primaryError, calls, result>>
    /\ UNCHANGED <<avars, cvars, gvars, tvars, evars, rvars, pvars>>

\* `providerInfo = await Promise.all(allProviders.map(... provider.isAvailable() ...))`
\* and the return; a rejected probe rejects getProviderStats.
StatsInfo ==
    /\ pc = "statsInfo"
    /\ pc' = "statsDone"
    /\ stats' =
          IF \E k \in 1..Len(stats.all) : isAvailable(stats.all[k]) = "throws"
          THEN [stats EXCEPT !.kind = "threw"]
          ELSE [stats EXCEPT
                  !.kind = "returned",
                  !.providerInfo =
                      [k \in 1..Len(stats.all) |->
                          [name |-> stats.all[k],
                           available |-> isAvailable(stats.all[k]) = "true"]],
                  !.totalProviders = Len(stats.all),
                  !.availableProviders = Len(stats.available)]
    /\ UNCHANGED <<providers, client, health, op, request, preferred, provider,
                   fallbackProvider, available, idx, probe, primaryError, calls, result>>
    /\ UNCHANGED <<avars, cvars, gvars, tvars, evars, rvars, pvars>>

\* The caller has the statistics.
StatsReturn ==
    /\ pc = "statsDone"
    /\ pc' = "idle"
    /\ stats' = NoStats
    /\ UNCHANGED <<providers, client, health, op, request, preferred, provider,
                   fallbackProvider, available, idx, probe, primaryError, calls, result>>
    /\ UNCHANGED <<avars, cvars, gvars, tvars, evars, rvars, pvars>>

-----------------------------------------------------------------------------
(* ImageGenerationError and ErrorHandler                                   *)

\* What a caught value can carry: a Node error code, an OpenAI error code
\* (error.error.code) and an HTTP status (error.response.status, 0 = none).
RawErrors ==
    [kind : {"raw"},
     code : {"", "ENOTFOUND", "ECONNREFUSED", "ETIMEDOUT"},
     errorCode : {"", "content_policy_violation", "invalid_request_error",
                  "rate_limit_exceeded", "insufficient_quota"},
     status : {0, 401, 403, 429, 500, 503}]

NoRaw == [kind |-> "none", code |-> "", errorCode |-> "", status |-> 0]

\* The value is an ImageGenerationError built earlier.
TypedRaw == [NoRaw EXCEPT !.kind = "typed"]

HandlerProviders == {"chatgpt", "huggingface", "system"}

NoTyped == [code |-> "", provider |-> "", retryable |-> FALSE]

\* new ImageGenerationError(code, message, provider, {retryable: override}):
\* `this.retryable = options.retryable ?? this.isRetryableByCode(code)`
newImageGenerationError(code, prov, override) ==
    [code |-> code, provider |-> prov,
     retryable |-> IF override # None THEN override[1] ELSE isRetryableByCode(code)]

\* Mutant of handleOpenAIError: insufficient_quota is marked retryable.
handleOpenAIErrorRetriesQuota(e) ==
    IF e.errorCode = "insufficient_quota"
    THEN newImageGenerationError("QUOTA_EXCEEDED", "chatgpt", Some(TRUE))
    ELSE newImageGenerationError("OPERATION_FAILED", "chatgpt", None)

handleOpenAIError(e) ==
    IF e.errorCode = "content_policy_violation"
    THEN newImageGenerationError("CONTENT_POLICY_VIOLATION", "chatgpt", Some(FALSE))
    ELSE IF e.errorCode = "invalid_request_error"
    THEN newImageGenerationError("INVALID_REQUEST", "chatgpt", Some(FALSE))
    ELSE IF e.errorCode = "rate_limit_exceeded"
    THEN newImageGenerationError("RATE_LIMIT_EXCEEDED", "chatgpt", Some(TRUE))
    ELSE IF e.errorCode = "insufficient_quota"
    THEN newImageGenerationError("QUOTA_EXCEEDED", "chatgpt", Some(FALSE))
    ELSE IF e.status = 401
    THEN newImageGenerationError("AUTHENTICATION_FAILED", "chatgpt", Some(FALSE))
    ELSE IF e.status = 403
    THEN newImageGenerationError("PERMISSION_DENIED", "chatgpt", Some(FALSE))
    ELSE IF e.status = 503
    THEN newImageGenerationError("SERVICE_UNAVAILABLE", "chatgpt", Some(TRUE))
    ELSE newImageGenerationError("OPERATION_FAILED", "chatgpt", None)

handleHuggingFaceError(e) ==
    IF e.status = 401
    THEN newImageGenerationError("AUTHENTICATION_FAILED", "huggingface", Some(FALSE))
    ELSE IF e.status = 403
    THEN newImageGenerationError("PERMISSION_DENIED", "huggingface", Some(FALSE))
    ELSE IF e.status = 429
    THEN newImageGenerationError("RATE_LIMIT_EXCEEDED", "huggingface", Some(TRUE))
    ELSE IF e.status = 503
    THEN newImageGenerationError("SERVICE_UNAVAILABLE", "huggingface", Some(TRUE))
    ELSE newImageGenerationError("OPERATION_FAILED", "huggingface", None)

\* ErrorHandler.handle(error, provider) for a value that is no
\* ImageGenerationError.
handle(e, prov) ==
    IF prov = "chatgpt" THEN handleOpenAIError(e)
    ELSE IF prov = "huggingface" THEN handleHuggingFaceError(e)
    ELSE IF e.code = "ENOTFOUND" \/ e.code = "ECONNREFUSED"
    THEN newImageGenerationError("NETWORK_ERROR", prov, Some(TRUE))
    ELSE IF e.code = "ETIMEDOUT"
    THEN newImageGenerationError("TIMEOUT", prov, Some(TRUE))
    ELSE newImageGenerationError("OPERATION_FAILED", prov, Some(FALSE))

validationError == newImageGenerationError("VALIDATION_FAILED", "system", Some(FALSE))

timeoutError(prov) == newImageGenerationError("TIMEOUT", prov, Some(TRUE))

EQuiet ==
    /\ eraw = NoRaw
    /\ eprovider = ""
    /\ eerr = NoTyped

\* new ImageGenerationError(code, message, provider) without options
Construct ==
    /\ \E code \in ErrorCodes, prov \in HandlerProviders :
          /\ eraw' = NoRaw
          /\ eprovider' = prov
          /\ eerr' = newImageGenerationError(code, prov, None)
    /\ UNCHANGED notErrors

\* ErrorHandler.handle on a caught value of a backend or of Node
Handle ==
    /\ \E e \in RawErrors, prov \in HandlerProviders :
          /\ eraw' = e
          /\ eprovider' = prov
          /\ eerr' = handle(e, prov)
    /\ UNCHANGED notErrors

\* ErrorHandler.handle on an ImageGenerationError built earlier:
\* `if (error instanceof ImageGenerationError) return error`
HandleTyped ==
    /\ eerr # NoTyped
    /\ \E prov \in HandlerProviders : eprovider' = prov
    /\ eraw' = TypedRaw
    /\ eerr' = eerr
    /\ UNCHANGED notErrors

ValidationError ==
    /\ eraw' = NoRaw
    /\ eprovider' = "system"
    /\ eerr' = validationError
    /\ UNCHANGED notErrors

TimeoutError ==
    /\ \E prov \in HandlerProviders :
          /\ eprovider' = prov
          /\ eerr' = timeoutError(prov)
    /\ eraw' = NoRaw
    /\ UNCHANGED notErrors

ErrorNext ==
    \/ Construct
    \/ Handle
    \/ HandleTyped
    \/ ValidationError
    \/ TimeoutError

-----------------------------------------------------------------------------
(* ProviderManager.getCapabilities                                         *)

\* getSupportedFormats() of the two adapters.
getSupportedFormats(p) ==
    IF p = "chatgpt" THEN {"png"} ELSE {"png", "jpeg", "webp"}

\* getMaxImageCount() of the two adapters.
getMaxImageCount(p) ==
    IF p = "chatgpt" THEN (IF model = "dall-e-3" THEN 1 ELSE 10) ELSE 1

\* Mutant of getCapabilities: the summary is taken over the whole registry.
getCapabilitiesOfRegistry(avail) ==
    LET some(feature) == \E k \in 1..Len(providers) : supportsFeature(providers[k], feature)
        counts == {getMaxImageCount(providers[k]) : k \in 1..Len(providers)}
    IN  [kind |-> "capabilities", available |-> avail,
         canGenerate |-> some("generation"), canDescribe |-> some("description"),
         canTag |-> some("tagging"), canGenerateLogos |-> some("logo"),
         supportedFormats |-> UNION {getSupportedFormats(providers[k]) : k \in 1..Len(providers)},
         maxImageCount |-> IF counts = {} THEN 0
                           ELSE CHOOSE n \in counts : \A m \in counts : m <= n]

\* getCapabilities after its getAvailableProviders call. supportedFormats is
\* the de-duplicated list, kept as a set.
getCapabilities(avail) ==
    LET some(feature) == \E k \in 1..Len(avail) : supportsFeature(avail[k], feature)
        counts == {getMaxImageCount(avail[k]) : k \in 1..Len(avail)}
    IN  IF Len(avail) = 0
        THEN [kind |-> "capabilities", available |-> avail,
              canGenerate |-> FALSE, canDescribe |-> FALSE, canTag |-> FALSE,
              canGenerateLogos |-> FALSE, supportedFormats |-> {}, maxImageCount |-> 0]
        ELSE [kind |-> "capabilities", available |-> avail,
              canGenerate |-> some("generation"), canDescribe |-> some("description"),
              canTag |-> some("tagging"), canGenerateLogos |-> some("logo"),
              supportedFormats |-> UNION {getSupportedFormats(avail[k]) : k \in 1..Len(avail)},
              maxImageCount |-> CHOOSE n \in counts : \A m \in counts : m <= n]

\* One getCapabilities call, from entry to return.
GetCapabilities ==
    /\ pc = "idle"
    /\ stats' = getCapabilities(availableNow)
    /\ UNCHANGED mvars
    /\ UNCHANGED <<avars, cvars, gvars, tvars, evars, rvars, pvars>>

CapabilityNext ==
    \/ HealthChange
    \/ GetCapabilities

-----------------------------------------------------------------------------
(* The registry's life cycle: constructor, initializeProviders,            *)
(* reloadProviders                                                         *)

\* initializeProviders calls awaiting loadConfig at the same time.
MaxLoads == 2

NoRead == [kind |-> "none", by |-> "", registry |-> <<>>]

\* Map.set: a new key is appended, a known key keeps its place.
mapSet(reg, name) ==
    IF \E k \in 1..Len(reg) : reg[k] = name THEN reg ELSE Append(reg, name)

\* initializeProviders after its await, line 32-41: chatgpt when enabled, then
\* huggingface when enabled, set into the registry as it is at that moment.
initializeProviders(reg, en) ==
    LET withChatGpt == IF "chatgpt" \in en THEN mapSet(reg, "chatgpt") ELSE reg
    IN  IF "huggingface" \in en THEN mapSet(withChatGpt, "huggingface") ELSE withChatGpt

RQuiet ==
    /\ enabled = {}
    /\ loads = 0
    /\ seen = NoRead

\* loadConfig resolves and initializeProviders runs to its end.
LoadConfigResolves ==
    /\ loads > 0
    /\ providers' = initializeProviders(providers, enabled)
    /\ loads' = loads - 1
    /\ UNCHANGED <<enabled, seen>>
    /\ UNCHANGED <<avars, svars, cvars, gvars, tvars, evars, pvars>>
    /\ UNCHANGED <<client, health, pc, op, request, preferred, provider,
                   fallbackProvider, available, idx, probe, primaryError, calls, result>>

\* reloadProviders up to its await: the Map is cleared and initializeProviders
\* is entered.
ReloadProviders ==
    /\ loads < MaxLoads
    /\ providers' = <<>>
    /\ loads' = loads + 1
    /\ UNCHANGED <<enabled, seen>>
    /\ UNCHANGED <<avars, svars, cvars, gvars, tvars, evars, pvars>>
    /\ UNCHANGED <<client, health, pc, op, request, preferred, provider,
                   fallbackProvider, available, idx, probe, primaryError, calls, result>>

\* A call is entered whose first synchronous act is to read this.providers:
\* getProvider(preferred), or getProviders() in getAvailableProviders.
ReadRegistry ==
    /\ \E m \in {"generateImage", "describeImage", "tagImage", "getCapabilities"} :
          seen' = [kind |-> "read", by |-> m, registry |-> providers]
    /\ UNCHANGED <<enabled, loads>>
    /\ UNCHANGED <<mvars, avars, svars, cvars, gvars, tvars, evars, pvars>>

ReloadNext ==
    \/ LoadConfigResolves
    \/ ReloadProviders
    \/ ReadRegistry

-----------------------------------------------------------------------------
(* The prompt on its way to the backend: validateRequest, sanitizePrompt,  *)
(* applyStyleToPrompt                                                      *)

\* Tokens of a prompt.
MaxPromptTokens == 4

\* A prompt is a string of whitespace characters ("sp"), harmless words
\* ("word") and words of sanitizePrompt's patterns ("bad"); words are separated
\* by whitespace.
Prompts ==
    {p \in UNION {[1..n -> {"sp", "word", "bad"}] : n \in 0..MaxPromptTokens} :
        \A k \in 1..(Len(p) - 1) : p[k] = "sp" \/ p[k + 1] = "sp"}

\* String.prototype.trim
trim(p) ==
    LET inked == {k \in 1..Len(p) : p[k] # "sp"}
    IN  IF inked = {} THEN <<>>
        ELSE SubSeq(p, CHOOSE k \in inked : \A j \in inked : k <= j,
                       CHOOSE k \in inked : \A j \in inked : j <= k)

\* replace(/\s+/g, ' '): every run of whitespace becomes one space.
collapseSpaces(p) ==
    LET kept == {k \in 1..Len(p) : p[k] # "sp" \/ k = 1 \/ p[k - 1] # "sp"}
    IN  [i \in 1..Cardinality(kept) |->
            p[CHOOSE k \in kept : Cardinality({j \in kept : j <= k}) = i]]

\* BaseImageProvider.sanitizePrompt: trim and collapse, replace every match of
\* the four patterns by the empty string, collapse and trim again.
sanitizePrompt(p) ==
    trim(collapseSpaces(SelectSeq(collapseSpaces(trim(p)), LAMBDA t : t # "bad")))

\* applyStyleToPrompt: `${prompt}, ${styleDefinition.promptModifier}` for a
\* known style ("style" is the appended text), the prompt itself otherwise.
applyStyleToPrompt(p, styled) == IF styled THEN Append(p, "style") ELSE p

NoSent == [kind |-> "none", text |-> <<>>, styled |-> FALSE]

\* The head of ChatGPTProvider / HuggingFaceProvider.generateImage on a
\* configured adapter: validateRequest, then sanitizePrompt and
\* applyStyleToPrompt give the prompt of the backend call.
GenerateImageHead ==
    /\ sent = NoSent
    /\ \E styled \in BOOLEAN :
          sent' = IF validateRequest(Req(Len(prompt), Len(trim(prompt)), None, None, FALSE)) # "ok"
                  THEN [kind |-> "rejected", text |-> <<>>, styled |-> styled]
                  ELSE [kind |-> "sent", styled |-> styled,
                        text |-> applyStyleToPrompt(sanitizePrompt(prompt), styled)]
    /\ UNCHANGED <<model, late, prompt>>
    /\ UNCHANGED <<mvars, avars, svars, cvars, gvars, tvars, evars, rvars>>

\* The adapter is called again, with another prompt.
NextPrompt ==
    /\ sent # NoSent
    /\ prompt' \in Prompts
    /\ sent' = NoSent
    /\ UNCHANGED <<model, late>>
    /\ UNCHANGED <<mvars, avars, svars, cvars, gvars, tvars, evars, rvars>>

SanitizeNext ==
    \/ GenerateImageHead
    \/ NextPrompt

-----------------------------------------------------------------------------
(* Specifications                                                          *)

\* Everything outside ProviderManager and one adapter call is at rest.
PQuiet ==
    /\ model = "dall-e-3"
    /\ late = <<>>
    /\ prompt = <<>>
    /\ sent = NoSent

OthersQuiet == SQuiet /\ CQuiet /\ GQuiet /\ TQuiet /\ EQuiet /\ RQuiet /\ PQuiet

MNext ==
    \/ HealthChange
    \/ Call
    \/ ProbePreferred
    \/ ProbeNext
    \/ SelectBest
    \/ Dispatch
    \/ Invoke
    \/ SelectFallback
    \/ InvokeFallback
    \/ Return
    \/ CallStats
    \/ StatsAvailable
    \/ StatsInfo
    \/ StatsReturn

Init == MInit /\ AQuiet /\ OthersQuiet

Spec == Init /\ [][MNext]_vars

AInit == MQuiet /\ AQuiet /\ OthersQuiet

ANext ==
    \/ CallAdapter
    \/ CallWrapper
    \/ AdapterEntry
    \/ StartAttempt
    \/ OperationResolves
    \/ OperationRejects
    \/ TimeoutFires
    \/ DelayElapses
    \/ LateSettles

AdapterSpec == AInit /\ [][ANext]_vars

\* Node's event loop runs a due timer and the continuation of a settled
\* promise; nothing makes a backend call settle.
AFairness ==
    /\ WF_vars(AdapterEntry)
    /\ WF_vars(StartAttempt)
    /\ WF_vars(TimeoutFires)
    /\ WF_vars(DelayElapses)

FairAdapterSpec == AdapterSpec /\ AFairness

CInit ==
    MQuiet /\ AQuiet /\ SQuiet /\ CacheInit /\ GQuiet /\ TQuiet /\ EQuiet /\ RQuiet /\ PQuiet

CacheSpec == CInit /\ [][CacheNext]_vars

TInit == ToolInit /\ AQuiet /\ SQuiet /\ GQuiet /\ TQuiet /\ EQuiet /\ RQuiet /\ PQuiet

ToolSpec == TInit /\ [][ToolNext]_vars

EInit == MQuiet /\ AQuiet /\ OthersQuiet

ErrorSpec == EInit /\ [][ErrorNext]_vars

\* Any registry, any adapter configuration, either model of the ChatGPT adapter.
KInit ==
    /\ MInit /\ AQuiet /\ SQuiet /\ CQuiet /\ GQuiet /\ TQuiet /\ EQuiet /\ RQuiet
    /\ model \in {"dall-e-3", "dall-e-2"}
    /\ late = <<>>
    /\ prompt = <<>>
    /\ sent = NoSent

CapabilitySpec == KInit /\ [][CapabilityNext]_vars

PInit ==
    /\ MQuiet /\ AQuiet /\ SQuiet /\ CQuiet /\ GQuiet /\ TQuiet /\ EQuiet /\ RQuiet
    /\ model = "dall-e-3"
    /\ late = <<>>
    /\ prompt \in Prompts
    /\ sent = NoSent

SanitizeSpec == PInit /\ [][SanitizeNext]_vars

\* `new ProviderManager()` has returned: the Map is empty and the constructor's
\* initializeProviders() call, not awaited, is waiting for loadConfig.
RInit ==
    /\ MQuiet /\ AQuiet /\ SQuiet /\ CQuiet /\ GQuiet /\ TQuiet /\ EQuiet /\ PQuiet
    /\ enabled \in SUBSET Providers
    /\ loads = 1
    /\ seen = NoRead

ReloadSpec == RInit /\ [][ReloadNext]_vars

-----------------------------------------------------------------------------
(* Claims about ProviderManager, checked under Spec                        *)

ScenarioARequest == Req(13, 13, Some(1), Some(Dim(512, 512)), FALSE)

\* C1: every adapter ProviderManager selects or invokes (getBestProvider's
\* result, the preferred adapter, the fallback) answered true to the
\* isAvailable() probe made for that selection, and a result that names an
\* adapter names one that was invoked after such a probe.
C1_SelectsOnlyProbedAvailable ==
    /\ pc \in {"selected", "invoke"} /\ provider # "" => probe[provider] = "true"
    /\ pc = "invokeFallback" => probe[fallbackProvider] = "true"
    /\ \A k \in 1..Len(calls) : calls[k].probed = "true"
    /\ result.kind = "returned" /\ result.provider # "none" =>
          \E k \in 1..Len(calls) :
              calls[k].name = result.provider /\ calls[k].probed = "true"

\* Scenario A: chatgpt probed unavailable, huggingface available, the result
\* comes from huggingface.
C1_Witness ==
    /\ pc = "done"
    /\ op = "generate"
    /\ request = ScenarioARequest
    /\ providers = RegistryOrder
    /\ probe["chatgpt"] = "false"
    /\ probe["huggingface"] = "true"
    /\ result = Returned(TRUE, "huggingface", "")

\* C2: when the primary adapter threw and another registered adapter answered
\* true to the fallback probe and supports the capability, that adapter is
\* invoked as the fallback, and when it succeeds the method returns its
\* success result under its name.
C2_FallbackSuccessReturned ==
    \A q \in Providers :
        (/\ pc = "done"
         /\ primaryError # ""
         /\ q # provider
         /\ Registered(q)
         /\ probe[q] = "true"
         /\ supportsFeature(q, fallbackFeature(op)))
        => /\ Len(calls) = 2
           /\ calls[2].name = q
           /\ calls[2].outcome = "success" => result = Returned(TRUE, q, "")

\* Scenario C: chatgpt timed out on every attempt (OPERATION_FAILED after the
\* retries), huggingface succeeded as the fallback.
C2_Witness ==
    /\ pc = "done"
    /\ op = "generate"
    /\ Len(calls) = 2
    /\ calls[1] = [name |-> "chatgpt", role |-> "primary", probed |-> "true",
                   outcome |-> "OPERATION_FAILED"]
    /\ calls[2].name = "huggingface"
    /\ result = Returned(TRUE, "huggingface", "")

\* C3: a call invokes at most two adapter operations, the second one on a
\* different adapter and only after the first threw; once the fallback was
\* invoked, or no fallback was found, the call is at its terminal result.
C3_AtMostOneFallback ==
    /\ Len(calls) <= 2
    /\ Len(calls) >= 1 => calls[1].role = "primary"
    /\ Len(calls) = 2 =>
          /\ calls[2].role = "fallback"
          /\ calls[1].name # calls[2].name
          /\ calls[1].outcome # "success"
          /\ callOver
    /\ primaryError # "" /\ pc \notin {"fallback", "invokeFallback"} =>
          callOver /\ result.kind = "returned"

\* Both adapters were invoked and both threw.
C3_Witness ==
    /\ pc = "done"
    /\ Len(calls) = 2
    /\ calls[2].outcome # "success"
    /\ result.kind = "returned"
    /\ ~result.success

C9_NoFallbackAfterRequestError ==
    (/\ op = "generate"
     /\ Len(calls) >= 1
     /\ calls[1].outcome \in {"INVALID_REQUEST", "CONTENT_POLICY_VIOLATION"})
    => /\ Len(calls) = 1
       /\ pc # "invokeFallback"

\* C15: describeImage and tagImage invoke the operation only on adapters whose
\* supportsFeature answers true for 'description' / 'tagging'.
C15_CapabilityCheckedBeforeDispatch ==
    op \in {"describe", "tag"} =>
        \A k \in 1..Len(calls) : supportsFeature(calls[k].name, fallbackFeature(op))

\* C16: the primary adapter is the preferred one only when that adapter answered
\* true to its probe and supports the capability of the request; priority
\* selection is entered with a registered preferred adapter only when its probe
\* did not answer true, and the primary adapter it yields is getBestProvider's
\* choice among the adapters probed available.
C16_PreferredElsePriority ==
    /\ (pc = "best" /\ idx = 1 /\ preferred # "" /\ Registered(preferred))
          => probe[preferred] # "true"
    /\ pc = "invoke" =>
          IF idx = 1
          THEN /\ provider = preferred
               /\ probe[preferred] = "true"
               /\ supportsFeature(preferred, primaryFeature(op, request))
          ELSE provider = getBestProvider(primaryFeature(op, request), available)

\* C17: every adapter generateImage is invoked on supports 'logo' when the
\* request is transparent and 'generation' otherwise.
C17_GenerateRoutedByCapability ==
    op = "generate" =>
        \A k \in 1..Len(calls) :
            supportsFeature(calls[k].name,
                            IF request.transparent THEN "logo" ELSE "generation")

\* A transparent request went to the preferred adapter, which failed, and then
\* to the fallback.
C17_Witness ==
    /\ pc = "done"
    /\ op = "generate"
    /\ request.transparent
    /\ preferred = "chatgpt"
    /\ Len(calls) = 2
    /\ calls[1].name = "chatgpt"
    /\ calls[2].name = "huggingface"

\* C18: a failed result of generateImage, describeImage or tagImage carries an
\* error code and a retryable flag next to its message.
C18_FailedResultCarriesCode ==
    (result.kind = "returned" /\ ~result.success)
    => /\ result.error # ""
       /\ result.code # None
       /\ result.retryable # None

\* C20: no step of a generateImage, describeImage or tagImage call changes the
\* registry, and getProviderStats reports the registry's size as totalProviders
\* and lists every adapter the latest call invoked, failed or not.
C20_RegistryUnchangedByCalls ==
    /\ [][(pc \in CallPositions) => (providers' = providers)]_vars
    /\ [](pc = "statsDone" /\ stats.kind = "returned" =>
             /\ stats.totalProviders = Len(providers)
             /\ \A k \in 1..Len(calls) :
                   /\ Registered(calls[k].name)
                   /\ \E j \in 1..Len(stats.providerInfo) :
                         stats.providerInfo[j].name = calls[k].name)

\* After a call whose primary adapter failed and whose fallback succeeded,
\* getProviderStats lists both adapters.
C20_Witness ==
    /\ pc = "statsDone"
    /\ stats.kind = "returned"
    /\ stats.totalProviders = 2
    /\ Len(calls) = 2
    /\ calls[1].outcome # "success"
    /\ calls[2].outcome = "success"
    /\ \E j \in 1..Len(stats.providerInfo) : stats.providerInfo[j].name = calls[1].name

\* C29: every result of getProviderStats is consistent: availableProviders is
\* the number of providerInfo entries with available = true and totalProviders
\* is the number of providerInfo entries.
C29_StatsConsistent ==
    stats.kind = "returned" =>
        /\ stats.totalProviders = Len(stats.providerInfo)
        /\ stats.availableProviders =
              Cardinality({k \in 1..Len(stats.providerInfo) : stats.providerInfo[k].available})

\* C23: getCapabilities returns the OR of supportsFeature over the adapters
\* whose probe answers true, the union of their formats and the maximum of
\* their getMaxImageCount; all false, no format and 0 when none is available.
\* Checked under CapabilitySpec.
C23_CapabilitiesOverAvailable ==
    [][GetCapabilities =>
        LET A == {q \in Providers : Registered(q) /\ isAvailable(q) = "true"}
            counts == {getMaxImageCount(q) : q \in A}
        IN  /\ stats'.canGenerate = (\E q \in A : supportsFeature(q, "generation"))
            /\ stats'.canDescribe = (\E q \in A : supportsFeature(q, "description"))
            /\ stats'.canTag = (\E q \in A : supportsFeature(q, "tagging"))
            /\ stats'.canGenerateLogos = (\E q \in A : supportsFeature(q, "logo"))
            /\ stats'.supportedFormats = UNION {getSupportedFormats(q) : q \in A}
            /\ stats'.maxImageCount =
                  IF A = {} THEN 0 ELSE CHOOSE n \in counts : \A m \in counts : m <= n]_vars

\* Both adapters are registered and only huggingface is available: the summary
\* has tagging and huggingface's formats, and not the 10 images of ChatGPT's
\* dall-e-2.
C23_Witness ==
    /\ stats.kind = "capabilities"
    /\ providers = RegistryOrder
    /\ model = "dall-e-2"
    /\ stats.available = <<"huggingface">>
    /\ stats.canTag
    /\ stats.supportedFormats = {"png", "jpeg", "webp"}
    /\ stats.maxImageCount = 1

-----------------------------------------------------------------------------
(* Claims about executeWithRetry and the adapters, checked under           *)
(* AdapterSpec and FairAdapterSpec                                         *)

\* The adapter machine ends only in outcomes ProviderManager's model of the
\* adapter call (AdapterCanSucceed, AdapterThrows) allows.
OutcomesAgree ==
    aself \in Providers /\ apc = "done" =>
        /\ final.kind = "value" => AdapterCanSucceed(aself, aop, areq, aclient)
        /\ final.kind = "error" =>
              final.err.code \in AdapterThrows(aself, aop, areq, aclient)

Failed(k) == attempts[k].kind \in {"rejected", "timeout"}

\* C5: an operation that failed every time with a retryable code is called
\* exactly retryAttempts (3) times, never a fourth time, and executeWithRetry
\* then rejects with OPERATION_FAILED whose details.lastError is the last
\* error; it does not resolve.
C5_RetryableFailsAfterThreeCalls ==
    /\ opCalls <= 3
    /\ (\A k \in 1..Len(attempts) : Failed(k) /\ isRetryableByCode(attempts[k].err.code))
       => /\ final.kind # "value"
          /\ apc = "done" /\ Len(attempts) >= 1 =>
                /\ opCalls = 3
                /\ Len(attempts) = 3
                /\ final = Rejected(createError("OPERATION_FAILED"), Some(attempts[3].err))

\* Three calls rejected with RATE_LIMIT_EXCEEDED, SERVICE_UNAVAILABLE and
\* NETWORK_ERROR; the wrapper gave up.
C5_Witness ==
    /\ apc = "done"
    /\ opCalls = 3
    /\ attempts = <<Settled("rejected", createError("RATE_LIMIT_EXCEEDED")),
                    Settled("rejected", createError("SERVICE_UNAVAILABLE")),
                    Settled("rejected", createError("NETWORK_ERROR"))>>
    /\ final.err.code = "OPERATION_FAILED"

\* C6: an attempt that failed with INVALID_REQUEST is the last one: the error is
\* rethrown as it is (not wrapped), no delay follows it and no further call is
\* made; failing so on the first attempt the operation is invoked exactly once.
C6_InvalidRequestNotRetried ==
    \A k \in 1..Len(attempts) :
        attempts[k] = Settled("rejected", createError("INVALID_REQUEST")) =>
            /\ k = Len(attempts)
            /\ opCalls = k
            /\ Len(delays) = k - 1
            /\ apc = "done"
            /\ final = Rejected(createError("INVALID_REQUEST"), None)

C6_Witness ==
    /\ apc = "done"
    /\ opCalls = 1
    /\ delays = <<>>
    /\ attempts = <<Settled("rejected", createError("INVALID_REQUEST"))>>
    /\ final = Rejected(createError("INVALID_REQUEST"), None)

\* C7: with attempts remaining, a failed attempt is followed by another attempt
\* if and only if its error's code is one of TIMEOUT, SERVICE_UNAVAILABLE,
\* NETWORK_ERROR, RATE_LIMIT_EXCEEDED (isRetryableByCode).
C7_RetryIffRetryableCode ==
    \A k \in 1..Len(attempts) :
        Failed(k) /\ k < retryAttempts =>
            ((k < Len(attempts) \/ apc # "done")
                <=> isRetryableByCode(attempts[k].err.code))

AllTimedOut ==
    /\ Len(attempts) >= 1
    /\ \A k \in 1..Len(attempts) : attempts[k].kind = "timeout"

\* C8: with a backend call that may never settle, every attempt's race ends
\* (the timer rejects it with TIMEOUT), at most retryAttempts calls are made,
\* and every executeWithRetry call ends; when all attempts timed out it ends by
\* rejecting with OPERATION_FAILED.
C8_TerminatesWhenBackendHangs ==
    /\ [](opCalls <= 3)
    /\ [](apc = "done" /\ AllTimedOut =>
            /\ opCalls = 3
            /\ final = Rejected(createError("OPERATION_FAILED"),
                                Some(createError("TIMEOUT"))))
    /\ (apc = "racing") ~> (apc # "racing")
    /\ (apc # "idle") ~> (apc = "done")

\* The operation never settled: three timeouts, then the failure.
C8_Witness ==
    /\ apc = "done"
    /\ AllTimedOut
    /\ Len(attempts) = 3
    /\ final.kind = "error"

\* C10: an adapter's generateImage given a request validateRequest rejects makes
\* no backend call, enters no attempt and sleeps no backoff delay; past its
\* synchronous head it has ended, and (the adapter being configured) it threw
\* INVALID_REQUEST.
C10_ValidationBeforeBackend ==
    (/\ aself \in Providers
     /\ apc # "idle"
     /\ aop = "generate"
     /\ validateRequest(areq) # "ok")
    => /\ opCalls = 0
       /\ attempts = <<>>
       /\ delays = <<>>
       /\ apc # "entered" =>
             /\ apc = "done"
             /\ final.kind = "error"
             /\ aclient => final = Rejected(createError("INVALID_REQUEST"), None)

\* Scenario D: width = 4000.
C10_Witness ==
    /\ apc = "done"
    /\ aself = "chatgpt"
    /\ aop = "generate"
    /\ aclient
    /\ areq = Req(13, 13, Some(1), Some(Dim(4000, 512)), FALSE)
    /\ opCalls = 0
    /\ final = Rejected(createError("INVALID_REQUEST"), None)

\* C25: an adapter's generateImage gets past validateRequest if and only if the
\* prompt is non-empty after trimming and at most 4000 characters, the count,
\* when present, is in 1..10, and the dimensions, when present, are within
\* 64..2048 with an aspect ratio within 1:4..4:1; every other request is
\* rejected with INVALID_REQUEST before any backend call.
C25_ValidateAcceptsIffValid ==
    (apc \notin {"idle", "entered"} /\ aself \in Providers /\ aop = "generate" /\ aclient) =>
        LET valid ==
                /\ areq.prompt.trimLen > 0
                /\ areq.prompt.len <= 4000
                /\ areq.count = None \/ areq.count[1] \in 1..10
                /\ \/ areq.dimensions = None
                   \/ LET w == areq.dimensions[1].width
                          h == areq.dimensions[1].height
                      IN  /\ w \in 64..2048
                          /\ h \in 64..2048
                          /\ w <= 4 * h
                          /\ h <= 4 * w
            rejected ==
                /\ apc = "done"
                /\ opCalls = 0
                /\ final = Rejected(createError("INVALID_REQUEST"), None)
        IN  valid <=> ~rejected

\* C27: an operation that lost its timeout race may settle afterwards, and what
\* it settles with is dropped: it changes neither the attempt count, the number
\* of backend calls, lastError nor the outcome; a value executeWithRetry
\* returns is the value of the attempt that settled before its timer, and the
\* lastError of its final failure is the error of the last attempt's race.
C27_LateOutcomeDiscarded ==
    /\ [][(late' # late) =>
            UNCHANGED <<apc, attempt, opCalls, lastError, attempts, delays, final>>]_vars
    /\ [](final.kind = "value" =>
            (Len(attempts) > 0 /\ attempts[Len(attempts)].kind = "resolved"))
    /\ []((apc = "done" /\ final.kind = "error" /\ final.lastError # None) =>
            (final.lastError[1] = attempts[Len(attempts)].err))

\* Every attempt timed out, one of the abandoned operations succeeded later,
\* and executeWithRetry still failed with OPERATION_FAILED / TIMEOUT.
C27_Witness ==
    /\ apc = "done"
    /\ AllTimedOut
    /\ \E k \in 1..Len(late) : late[k] = "resolved"
    /\ final = Rejected(createError("OPERATION_FAILED"), Some(createError("TIMEOUT")))

\* C24: the k-th sleep of executeWithRetry lasts retryDelay * 2^(k-1) ms (1000,
\* then 2000), there is exactly one sleep between two consecutive attempts,
\* none before the first attempt and none after the attempt that ends the call
\* (the last one, or one whose failure is not retried).
C24_BackoffSchedule ==
    /\ \A k \in 1..Len(delays) : delays[k] = retryDelay * 2 ^ (k - 1)
    /\ delays \in {<<>>, <<1000>>, <<1000, 2000>>}
    /\ apc \in {"attempt", "racing", "backoff"} => Len(delays) = Len(attempts)
    /\ apc \in {"attempt", "racing"} => Len(delays) = attempt - 1
    /\ (apc = "done" /\ Len(attempts) > 0) => Len(delays) = Len(attempts) - 1

\* Three failed attempts: 1000 ms after the first, 2000 ms after the second,
\* nothing after the third.
C24_Witness ==
    /\ apc = "done"
    /\ Len(attempts) = retryAttempts
    /\ \A k \in 1..Len(attempts) : Failed(k)
    /\ delays = <<1000, 2000>>

-----------------------------------------------------------------------------
(* Claims about the tool handlers and the cache, checked under ToolSpec    *)
(* and CacheSpec                                                           *)

\* C11: when the tool call before this one had the same request and succeeded,
\* and the entry it left in the (enabled) cache is still live when this call
\* ends, this call answers success with cached = true and invokes no adapter's
\* generateImage.
C11_SecondCallServedFromCache ==
    (/\ tpc = "done"
     /\ cacheEnabled
     /\ tfp # <<>>
     /\ prev = [fingerprint |-> tfp, success |-> TRUE]
     /\ texp > now)
    => /\ response = Response(TRUE, TRUE, "")
       /\ adapterCalls = 0

\* C12: the handler probes no adapter before it has consulted the cache, and a
\* request whose entry was live when the handler was entered and still is when
\* it ends was answered from the cache.
C12_CacheConsultedFirst ==
    /\ \A k \in 1..Len(tlog) :
          tlog[k] = "probe" => \E j \in 1..(k - 1) : tlog[j] = "cache.get"
    /\ (tpc = "done" /\ cacheEnabled /\ tfp # <<>> /\ texp > now)
          => response.success /\ response.cached

\* C13: cache.get(R) answers the result of the latest cache.set(R, result) while
\* that entry is stored and the clock has not reached its set time + ttl; it
\* answers absent once the clock is past that time, and when R was never set,
\* however often the entry was read in between.
C13_CacheRoundTrip ==
    got.kind = "get" =>
        LET w == lastSet[got.fingerprint]
            stored == \E k \in 1..Len(cache) : cache[k].fingerprint = got.fingerprint
        IN  /\ (w # None /\ stored /\ now < w[1].at + ttl)
                  => got.value = Some(w[1].result)
            /\ (w = None \/ now > w[1].at + ttl) => got.value = None

\* An entry that was read while live is absent after its expiresAt.
C13_Witness ==
    /\ got.kind = "get"
    /\ got.value = None
    /\ lastSet[got.fingerprint] # None
    /\ lastSet[got.fingerprint][1].read
    /\ now > lastSet[got.fingerprint][1].at + ttl
    /\ \E k \in 1..Len(cache) : cache[k].fingerprint = got.fingerprint

C26_CacheHoldsOnlySuccesses ==
    /\ [](\A k \in 1..Len(cache) : cache[k].result.success)
    /\ [](response.cached => response.success)
    /\ [][(cache' # cache) =>
            (tpc = "generating" /\ response'.success /\ ~response'.cached)]_vars
    /\ [][(tpc = "generating" /\ tpc' = "done" /\ ~response'.success) =>
            (cache' = cache)]_vars

\* A generation that reached an adapter has failed with the cache enabled, and
\* the cache is still empty.
C26_Witness ==
    /\ tpc = "done"
    /\ cacheEnabled
    /\ ~response.success
    /\ adapterCalls > 0
    /\ cache = <<>>

-----------------------------------------------------------------------------
(* Claims about the error taxonomy, checked under ErrorSpec                *)

\* C19: every ImageGenerationError built without an override, or produced by
\* ErrorHandler.handle, validationError or timeoutError, has retryable = TRUE
\* exactly when its code is TIMEOUT, SERVICE_UNAVAILABLE, NETWORK_ERROR or
\* RATE_LIMIT_EXCEEDED.
C19_RetryableFollowsCode ==
    eerr # NoTyped =>
        eerr.retryable = (eerr.code \in {"TIMEOUT", "SERVICE_UNAVAILABLE",
                                         "NETWORK_ERROR", "RATE_LIMIT_EXCEEDED"})

\* handle passes an override for OpenAI's insufficient_quota, and handing the
\* error to handle again returns it as it is.
C19_Witness ==
    /\ eraw = TypedRaw
    /\ eerr = [code |-> "QUOTA_EXCEEDED", provider |-> "chatgpt", retryable |-> FALSE]

\* C28: ErrorHandler.handle classifies a transport failure alike for every
\* provider argument: code ETIMEDOUT gives TIMEOUT, ENOTFOUND or ECONNREFUSED
\* give NETWORK_ERROR, and HTTP status 429 gives RATE_LIMIT_EXCEEDED, each
\* retryable. (A value carrying one of these marks and nothing else.)
C28_TransportFailuresClassifiedAlike ==
    (eraw.kind = "raw" /\ eraw.errorCode = "") =>
        /\ (eraw.code = "ETIMEDOUT" /\ eraw.status = 0) =>
              (eerr.code = "TIMEOUT" /\ eerr.retryable)
        /\ (eraw.code \in {"ENOTFOUND", "ECONNREFUSED"} /\ eraw.status = 0) =>
              (eerr.code = "NETWORK_ERROR" /\ eerr.retryable)
        /\ (eraw.code = "" /\ eraw.status = 429) =>
              (eerr.code = "RATE_LIMIT_EXCEEDED" /\ eerr.retryable)

-----------------------------------------------------------------------------
(* Claims about the registry's life cycle, checked under ReloadSpec        *)

\* C21: a call that interleaves with reloadProviders or with the constructor's
\* initialization reads the complete registry of the configuration (the
\* previous and the new registry are the same, the configuration being fixed),
\* never an empty or partly filled one.
C21_CallSeesCompleteRegistry ==
    seen.kind = "read" => seen.registry = initializeProviders(<<>>, enabled)

-----------------------------------------------------------------------------
(* Claims about the prompt sent to the backend, checked under SanitizeSpec *)

\* C30: for a request validateRequest accepts, the prompt the adapter hands to
\* the backend after sanitizePrompt is not empty.
C30_SanitizedPromptNonEmpty ==
    sent.kind = "sent" => sent.text # <<>>

=============================================================================
